---- MODULE Spec2Model ----
(***************************************************************************)
(* makevtt (src/main.py): a raw timestamped transcript is read into cues,  *)
(* over-long cues are re-split by sentence and by time, and the cues are   *)
(* wrapped into lines for WebVTT output.                                   *)
(*                                                                         *)
(* Representation.  A Python str is a sequence of one-character strings.   *)
(* A datetime.time is the number of half seconds since midnight            *)
(* (0 .. DayTicks-1); every time the model handles lies on that grid.      *)
(* Python indices are 0-based, TLA+ sequences 1-based: text[i] of the      *)
(* source is text[i + 1] here.                                             *)
(***************************************************************************)
EXTENDS Integers, Sequences, FiniteSets, TLC

VARIABLES
    pc,             \* where the running function stands
    \* split_text_by_sentences (src/main.py:154-185)
    text,           \* parameter text
    max_length,     \* parameter max_length
    start,          \* local start: the cursor
    chunks,         \* local chunks
    cuts,           \* history: every value the cursor took, in order
    \* split_into_lines (src/main.py:204-238)
    wrap_text,      \* parameter text
    lines,          \* returned lines
    \* split_time (src/main.py:121-151)
    t_start,        \* parameter start
    t_end,          \* parameter end
    count,          \* parameter count
    times,          \* list(zip(start_times, end_times))
    \* read_raw_data and split_subtitles (src/main.py:39-90)
    file,           \* the lines of the input file
    line_no,        \* number of lines read so far
    start_time,     \* local start_time of read_raw_data
    texts,          \* local texts of read_raw_data
    result,         \* local result of read_raw_data = vtt of split_subtitles
    cue_no,         \* number of cues split_subtitles has consumed
    output          \* local output of split_subtitles

textVars == <<text, max_length, start, chunks, cuts>>
lineVars == <<wrap_text, lines>>
timeVars == <<t_start, t_end, count, times>>
pipeVars == <<file, line_no, start_time, texts, result, cue_no, output>>
vars == <<pc, textVars, lineVars, timeVars, pipeVars>>

(***************************************************************************)
(* Bounds of the model.                                                    *)
(***************************************************************************)
MaxTextLen == 5      \* longest text given to split_text_by_sentences alone
MaxMaxLength == 3    \* largest max_length given to it alone
HangUnroll == 2      \* iterations followed once the cursor has stopped moving
MaxTicks == 70       \* latest time (in half seconds) given to split_time alone
MaxCount == 3        \* largest count given to split_time alone
MaxWords == 3        \* most words in a text given to split_into_lines
MaxLines == 4        \* most lines in an input file

(***************************************************************************)
(* Program constants.                                                      *)
(***************************************************************************)
DefaultMaxLength == 120     \* max_length=120
MaxWidth == 60              \* ... > 60
MaxAllotment == 10          \* min(10, ...)
DayTicks == 24 * 3600 * 2   \* a datetime.time wraps at 24 h

(***************************************************************************)
(* Python built-ins.                                                       *)
(***************************************************************************)
Min(a, b) == IF a <= b THEN a ELSE b

Max(S) == CHOOSE x \in S : \A y \in S : y <= x

\* sorted(S)
Sorted(S) ==
    [k \in 1..Cardinality(S) |->
        CHOOSE x \in S : Cardinality({y \in S : y < x}) = k - 1]

\* str.isspace for the characters of the model
IsSpace(c) == c \in {" ", "\t", "\n"}

\* s[from:to] with 0 <= from <= to <= len(s)
SliceDropLast(s, from, to) == SubSeq(s, from + 1, to - 1)
Slice(s, from, to) == SubSeq(s, from + 1, to)

\* str.strip(): from the first to the last character that is not whitespace
strip(s) ==
    LET keep == {i \in 1..Len(s) : ~IsSpace(s[i])}
        lo == CHOOSE i \in keep : \A j \in 1..(i - 1) : IsSpace(s[j])
        hi == CHOOSE i \in keep : \A j \in (i + 1)..Len(s) : IsSpace(s[j])
    IN IF keep = {} THEN <<>> ELSE SubSeq(s, lo, hi)

\* " ".join(ss)
RECURSIVE join(_)
join(ss) ==
    IF Len(ss) = 0 THEN <<>>
    ELSE IF Len(ss) = 1 THEN ss[1]
    ELSE ss[1] \o <<" ">> \o join(Tail(ss))

\* c * n
Rep(c, n) == [i \in 1..n |-> c]

(***************************************************************************)
(* end_of_sentence_before: the loop runs i from pos - 1 down to 0 and      *)
(* returns the first i with text[i] one of . ? ! , : the largest such i    *)
(* below pos, or -1.                                                       *)
(***************************************************************************)
end_of_sentence_before(txt, pos) ==
    LET hits == {i \in 0..(pos - 1) : txt[i + 1] \in {".", "?", "!", ","}}
    IN IF hits = {} THEN -1 ELSE Max(hits)

(***************************************************************************)
(* The backward walk of split_text_by_sentences:                           *)
(*   while end > start and text[end - 1] not in " \n": end -= 1            *)
(* stops at the largest end in start+1 .. end0 with text[end - 1] a space  *)
(* or newline, or at start.                                                *)
(***************************************************************************)
WordWalk(txt, from, end0) ==
    LET stops == {e \in (from + 1)..end0 : txt[e] \in {" ", "\n"}}
    IN IF stops = {} THEN from ELSE Max(stops)

(***************************************************************************)
(* One iteration of the while loop of split_text_by_sentences, entered     *)
(* with start < len(text).  last: the iteration breaks out of the loop.    *)
(***************************************************************************)
FoundSentenceEnd(txt, from, maxlen) ==
    LET end == end_of_sentence_before(txt, from + maxlen + 1)
    IN ~(end = -1 \/ end < from)

Boundary(txt, from, maxlen) ==
    LET end == end_of_sentence_before(txt, from + maxlen + 1)
    IN IF end = -1 \/ end < from
       THEN WordWalk(txt, from, from + maxlen)
       ELSE end + 1

SentenceStep(txt, from, maxlen) ==
    IF Len(txt) - from <= maxlen
    THEN [last |-> TRUE, end |-> Len(txt),
          chunk |-> strip(Slice(txt, from, Len(txt)))]
    ELSE LET end == Boundary(txt, from, maxlen)
         IN [last |-> FALSE, end |-> end,
             chunk |-> strip(Slice(txt, from, end))]

(***************************************************************************)
(* split_text_by_sentences as its callers see it.  hangs: the cursor stops *)
(* moving in an iteration that does not break, so the loop appends empty   *)
(* chunks for ever and the call never returns (no chunks are returned).    *)
(***************************************************************************)
RECURSIVE SplitFrom(_, _, _)
SplitFrom(txt, from, maxlen) ==
    IF ~(from < Len(txt)) THEN [hangs |-> FALSE, chunks |-> <<>>]
    ELSE LET s == SentenceStep(txt, from, maxlen)
         IN IF s.last THEN [hangs |-> FALSE, chunks |-> <<s.chunk>>]
            ELSE IF s.end = from THEN [hangs |-> TRUE, chunks |-> <<>>]
            ELSE LET r == SplitFrom(txt, s.end, maxlen)
                 IN IF r.hangs THEN r
                    ELSE [hangs |-> FALSE, chunks |-> <<s.chunk>> \o r.chunks]

split_text_by_sentences(txt, maxlen) == SplitFrom(txt, 0, maxlen)

(***************************************************************************)
(* split_text_by_sentences, one action per path through the loop body.     *)
(***************************************************************************)
Alphabet == {"a", " ", ".", "\t"}

TextsUpTo(n) == UNION {[1..k -> Alphabet] : k \in 0..n}

TextIdle ==
    /\ text = <<>>
    /\ max_length = 0
    /\ start = 0
    /\ chunks = <<>>
    /\ cuts = <<>>

LinesIdle == wrap_text = <<>> /\ lines = <<>>

TimeIdle == t_start = 0 /\ t_end = 0 /\ count = 0 /\ times = <<>>

PipeIdle ==
    /\ file = <<>>
    /\ line_no = 0
    /\ start_time = 0
    /\ texts = <<>>
    /\ result = <<>>
    /\ cue_no = 0
    /\ output = <<>>

InitText ==
    /\ pc = "loop"
    /\ text \in TextsUpTo(MaxTextLen)
    /\ max_length \in 1..MaxMaxLength
    /\ start = 0
    /\ chunks = <<>>
    /\ cuts = <<0>>
    /\ LinesIdle /\ TimeIdle /\ PipeIdle

\* the model follows a loop whose cursor has stopped for HangUnroll iterations
Followed == Len(chunks) < Len(text) + HangUnroll

\* while start < len(text): condition false, return chunks
LoopExit ==
    /\ pc = "loop"
    /\ ~(start < Len(text))
    /\ pc' = "done"
    /\ UNCHANGED <<textVars, lineVars, timeVars, pipeVars>>

\* if len(text) - start <= max_length: append the rest, break, return chunks
TakeRest ==
    /\ pc = "loop"
    /\ start < Len(text)
    /\ SentenceStep(text, start, max_length).last
    /\ chunks' = Append(chunks, SentenceStep(text, start, max_length).chunk)
    /\ cuts' = Append(cuts, Len(text))
    /\ pc' = "done"
    /\ UNCHANGED <<text, max_length, start, lineVars, timeVars, pipeVars>>

\* a sentence end was found at or after start: cut behind it
SentenceBreak ==
    /\ pc = "loop"
    /\ Followed
    /\ start < Len(text)
    /\ ~SentenceStep(text, start, max_length).last
    /\ FoundSentenceEnd(text, start, max_length)
    /\ chunks' = Append(chunks, SentenceStep(text, start, max_length).chunk)
    /\ start' = SentenceStep(text, start, max_length).end
    /\ cuts' = Append(cuts, start')
    /\ UNCHANGED <<pc, text, max_length, lineVars, timeVars, pipeVars>>

\* none was found: cut where the backward walk stopped
WordBreak ==
    /\ pc = "loop"
    /\ Followed
    /\ start < Len(text)
    /\ ~SentenceStep(text, start, max_length).last
    /\ ~FoundSentenceEnd(text, start, max_length)
    /\ chunks' = Append(chunks, SentenceStep(text, start, max_length).chunk)
    /\ start' = SentenceStep(text, start, max_length).end
    /\ cuts' = Append(cuts, start')
    /\ UNCHANGED <<pc, text, max_length, lineVars, timeVars, pipeVars>>

NextText == LoopExit \/ TakeRest \/ SentenceBreak \/ WordBreak

SpecText == InitText /\ [][NextText]_vars

(***************************************************************************)
(* Claims about split_text_by_sentences, checked under SpecText.           *)
(***************************************************************************)

\* C1: every chunk split_text_by_sentences collects is at most max_length
\* characters long, whichever way its boundary was chosen.
C1_ChunksWithinMaxLength ==
    \A i \in 1..Len(chunks) : Len(chunks[i]) <= max_length

\* c is s without the whitespace at its two ends
TrimOf(c, s) ==
    \E a \in 0..Len(s), b \in 0..Len(s) :
        /\ a + b <= Len(s)
        /\ \A i \in 1..a : IsSpace(s[i])
        /\ \A i \in (Len(s) - b + 1)..Len(s) : IsSpace(s[i])
        /\ c = SubSeq(s, a + 1, Len(s) - b)
        /\ c # <<>> => ~IsSpace(c[1]) /\ ~IsSpace(c[Len(c)])

RECURSIVE Flatten(_)
Flatten(ss) == IF ss = <<>> THEN <<>> ELSE ss[1] \o Flatten(Tail(ss))

NotSpace(c) == ~IsSpace(c)

\* C6: when split_text_by_sentences returns, its chunks are the trimmed
\* forms of consecutive slices of the text that start at index 0, follow one
\* another without gap or overlap and end at len(text); so the chunks joined
\* in order are the text, character for character, up to whitespace.
C6_ChunksReassembleText ==
    pc = "done" =>
        /\ Len(cuts) = Len(chunks) + 1
        /\ cuts[1] = 0
        /\ cuts[Len(cuts)] = Len(text)
        /\ \A i \in 1..Len(chunks) :
              /\ cuts[i] <= cuts[i + 1]
              /\ TrimOf(chunks[i], SubSeq(text, cuts[i] + 1, cuts[i + 1]))
        /\ SelectSeq(Flatten(chunks), NotSpace) = SelectSeq(text, NotSpace)

\* a returned split of several chunks, one of them cut behind a sentence end
\* and one of them shorter than its slice because whitespace was trimmed
C6_Witness ==
    /\ pc = "done"
    /\ Len(chunks) >= 3
    /\ \E i \in 1..Len(chunks) :
          chunks[i] # <<>> /\ chunks[i][Len(chunks[i])] = "."
    /\ \E i \in 1..Len(chunks) :
          chunks[i] # <<>> /\ Len(chunks[i]) < cuts[i + 1] - cuts[i]

\* no whitespace in the max_length characters from the cursor on
NoBreakInWindow ==
    \A i \in (start + 1)..(start + max_length) : text[i] \notin {" ", "\n"}

\* C9: every iteration of the loop that does not take the final chunk moves
\* the cursor strictly forward, and when no sentence end is found and the
\* window holds no whitespace the cursor moves by max_length: the loop ends.
C9_CursorAdvances ==
    [][(pc = "loop" /\ pc' = "loop" /\ chunks' # chunks) =>
          /\ start' > start
          /\ (~FoundSentenceEnd(text, start, max_length) /\ NoBreakInWindow)
                => start' = start + max_length]_vars

(***************************************************************************)
(* split_into_lines.                                                       *)
(***************************************************************************)

\* re.split(r"\s+", s): the pieces of s between its maximal runs of
\* whitespace, in order, the (possibly empty) pieces at the two ends included
ReSplit(s) ==
    LET n == Len(s)
        run_starts ==
            Sorted({i \in 1..n : IsSpace(s[i]) /\ (i = 1 \/ ~IsSpace(s[i - 1]))})
        run_ends ==
            Sorted({i \in 1..n : IsSpace(s[i]) /\ (i = n \/ ~IsSpace(s[i + 1]))})
        r == Len(run_starts)
    IN [k \in 1..(r + 1) |->
          SubSeq(s, IF k = 1 THEN 1 ELSE run_ends[k - 1] + 1,
                    IF k = r + 1 THEN n ELSE run_starts[k] - 1)]

\* len(current_line + " " + word) > 60
TooLongWithoutSeparator(current_line, word) ==
    Len(current_line \o word) > MaxWidth

TooLong(current_line, word) ==
    Len(current_line \o <<" ">> \o word) > MaxWidth

\* the body of "for word in words", on st = [lines, current_line]
AddWord(st, raw) ==
    LET word == strip(raw)
    IN IF word = <<>> THEN st
       ELSE IF st.current_line # <<>> /\ TooLong(st.current_line, word)
       THEN [lines |-> Append(st.lines, st.current_line), current_line |-> word]
       ELSE IF st.current_line = <<>>
       THEN [st EXCEPT !.current_line = word]
       ELSE [st EXCEPT !.current_line = st.current_line \o <<" ">> \o word]

RECURSIVE WrapWords(_, _)
WrapWords(words, n) ==
    IF n = 0 THEN [lines |-> <<>>, current_line |-> <<>>]
    ELSE AddWord(WrapWords(words, n - 1), words[n])

split_into_lines(txt) ==
    LET words == ReSplit(txt)
        st == WrapWords(words, Len(words))
    IN IF st.current_line # <<>>
       THEN Append(st.lines, st.current_line)
       ELSE st.lines

\* the texts given to split_into_lines: up to MaxWords words of these
\* lengths, one separator between them, whitespace or none at the two ends
WordLens == {1, 29, 30, 60, 61}

RECURSIVE Sentence(_, _)
Sentence(lens, sep) ==
    IF Len(lens) = 0 THEN <<>>
    ELSE IF Len(lens) = 1 THEN Rep("a", lens[1])
    ELSE Rep("a", lens[1]) \o sep \o Sentence(Tail(lens), sep)

WrapInputs ==
    {lead \o Sentence(lens, sep) \o trail :
        lens \in UNION {[1..k -> WordLens] : k \in 0..MaxWords},
        sep \in {<<" ">>, <<" ", "\t">>},
        lead \in {<<>>, <<" ">>},
        trail \in {<<>>, <<"\t", " ">>}}

InitLines ==
    /\ pc = "wrap"
    /\ wrap_text \in WrapInputs
    /\ lines = <<>>
    /\ TextIdle /\ TimeIdle /\ PipeIdle

Wrap ==
    /\ pc = "wrap"
    /\ lines' = split_into_lines(wrap_text)
    /\ pc' = "wrapped"
    /\ UNCHANGED <<wrap_text, textVars, timeVars, pipeVars>>

NextLines == Wrap

SpecLines == InitLines /\ [][NextLines]_vars

add_whole_seconds(t, half_seconds) == (t + 2 * (half_seconds \div 2)) % DayTicks

add_seconds(t, half_seconds) == (t + half_seconds) % DayTicks

\* time_to_seconds: hour * 3600 + minute * 60 + second, microsecond ignored
time_to_seconds(t) == t \div 2

\* len(range(0, stop, step)) for step # 0
RangeLen(stop, step) ==
    IF step > 0
    THEN IF stop > 0 THEN (stop + step - 1) \div step ELSE 0
    ELSE IF stop < 0 THEN (-stop + (-step) - 1) \div (-step) ELSE 0

\* time_allotment = min(10, total_duration // count)
AlwaysTenSeconds(total_duration, n) == MaxAllotment

time_allotment(total_duration, n) ==
    Min(MaxAllotment, total_duration \div n)

\* split_time.  raises: range() is given a step of 0 and raises ValueError
split_time(s, e, n) ==
    LET start_seconds == time_to_seconds(s)
        end_seconds == time_to_seconds(e)
        total_duration == end_seconds - start_seconds
        allotment == time_allotment(total_duration, n)
        start_times ==
            [i \in 1..Min(n, RangeLen(end_seconds, allotment)) |->
                add_seconds(s, 2 * ((i - 1) * allotment))]
        end_times ==
            (IF start_times = <<>> THEN <<>> ELSE Tail(start_times)) \o <<e>>
    IN IF allotment = 0
       THEN [raises |-> TRUE, pairs |-> <<>>]
       ELSE [raises |-> FALSE,
             pairs |-> [i \in 1..Min(Len(start_times), Len(end_times)) |->
                          [start |-> start_times[i], end |-> end_times[i]]]]

InitTime ==
    /\ pc = "call"
    /\ t_start \in 0..MaxTicks
    /\ t_end \in 0..MaxTicks
    /\ count \in 1..MaxCount
    /\ times = <<>>
    /\ TextIdle /\ LinesIdle /\ PipeIdle

SplitTimeReturns ==
    /\ pc = "call"
    /\ ~split_time(t_start, t_end, count).raises
    /\ times' = split_time(t_start, t_end, count).pairs
    /\ pc' = "returned"
    /\ UNCHANGED <<t_start, t_end, count, textVars, lineVars, pipeVars>>

SplitTimeRaises ==
    /\ pc = "call"
    /\ split_time(t_start, t_end, count).raises
    /\ pc' = "raised"
    /\ UNCHANGED <<timeVars, textVars, lineVars, pipeVars>>

NextTime == SplitTimeReturns \/ SplitTimeRaises

SpecTime == InitTime /\ [][NextTime]_vars

TotalSeconds == (t_end \div 2) - (t_start \div 2)

\* C2: split_time(start, end, 1) returns the one pair (start, end), for
\* every start and end.
C2_OneSegmentIsWholeRange ==
    (pc \in {"returned", "raised"} /\ count = 1) =>
        /\ pc = "returned"
        /\ times = <<[start |-> t_start, end |-> t_end]>>

\* C3: when the range holds at least count whole seconds, split_time returns
\* exactly count intervals, the first starting at start, each ending where
\* the next starts, the last ending at end.
C3_IntervalsChainOverRange ==
    (pc \in {"returned", "raised"} /\ TotalSeconds >= count) =>
        /\ pc = "returned"
        /\ Len(times) = count
        /\ times[1].start = t_start
        /\ \A i \in 1..(count - 1) : times[i].end = times[i + 1].start
        /\ times[count].end = t_end

\* three ten-second-or-shorter segments of a range that leaves a remainder
\* to the last one
C3_Witness ==
    /\ pc = "returned"
    /\ count = 3
    /\ TotalSeconds > 3 * (TotalSeconds \div 3)
    /\ Len(times) = 3
    /\ times[2].start > times[1].start

\* C10: when the allotment min(10, totalSeconds // count) is 0, split_time
\* still returns, its intervals built from zero-length steps (every start
\* time equal to start), and no error ends the run.
C10_ZeroAllotmentCompletes ==
    (pc \in {"returned", "raised"} /\ 0 <= TotalSeconds /\ TotalSeconds < count) =>
        /\ pc = "returned"
        /\ \A i \in 1..Len(times) : times[i].start = t_start

(***************************************************************************)
(* read_raw_data and split_subtitles: the program, main() without the      *)
(* writing of the output file.                                             *)
(***************************************************************************)

Digits == <<"0", "1", "2", "3", "4", "5", "6", "7", "8", "9">>

IsDigit(c) == \E d \in 1..10 : Digits[d] = c

DigitValue(c) == (CHOOSE d \in 1..10 : Digits[d] = c) - 1

TwoDigits(s, i) == 10 * DigitValue(s[i]) + DigitValue(s[i + 1])

\* str_to_time: time.fromisoformat on HH:MM:SS and HH:MM:SS.0 / HH:MM:SS.5,
\* the forms of a time the input files of the model hold; None (ok = FALSE)
\* for any other line of theirs
str_to_time(s) ==
    LET shaped ==
            /\ Len(s) \in {8, 10}
            /\ \A i \in {1, 2, 4, 5, 7, 8} : IsDigit(s[i])
            /\ s[3] = ":" /\ s[6] = ":"
            /\ Len(s) = 10 => (s[9] = "." /\ s[10] \in {"0", "5"})
        valid ==
            /\ shaped
            /\ TwoDigits(s, 1) < 24
            /\ TwoDigits(s, 4) < 60
            /\ TwoDigits(s, 7) < 60
    IN IF valid
       THEN [ok |-> TRUE,
             t |-> 2 * (TwoDigits(s, 1) * 3600 + TwoDigits(s, 4) * 60
                        + TwoDigits(s, 7))
                   + (IF Len(s) = 10 /\ s[10] = "5" THEN 1 ELSE 0)]
       ELSE [ok |-> FALSE, t |-> 0]

\* [(s, e, line) for (line, (s, e)) in zip(lines, times)]
CuesEndFirst(ls, ts) ==
    [i \in 1..Min(Len(ls), Len(ts)) |->
        [start |-> ts[i].end, end |-> ts[i].start, text |-> ls[i]]]

Cues(ls, ts) ==
    [i \in 1..Min(Len(ls), Len(ts)) |->
        [start |-> ts[i].start, end |-> ts[i].end, text |-> ls[i]]]

\* split_subtitle.  hangs: split_text_by_sentences never returns;
\* raises: split_time raises ValueError
split_subtitle(s, e, txt) ==
    LET ls == split_text_by_sentences(txt, DefaultMaxLength)
        ts == split_time(s, e, Len(ls.chunks))
    IN IF ls.hangs THEN [hangs |-> TRUE, raises |-> FALSE, cues |-> <<>>]
       ELSE IF ts.raises THEN [hangs |-> FALSE, raises |-> TRUE, cues |-> <<>>]
       ELSE [hangs |-> FALSE, raises |-> FALSE, cues |-> Cues(ls.chunks, ts.pairs)]

\* the lines an input file of the model is made of
Stamp(h1, h2, m1, m2, s1, s2) == <<h1, h2, ":", m1, m2, ":", s1, s2>>

FileLines ==
    { Stamp("0", "0", "0", "0", "0", "1"),
      Stamp("0", "0", "0", "0", "3", "0"),
      Stamp("2", "3", "5", "9", "5", "8"),
      Stamp("0", "0", "0", "0", "6", "0") \o <<" ">>,
      Rep("a", 60),
      Rep("a", 59) \o <<".">>,
      Rep("a", 121) }

Init ==
    /\ pc = "read"
    /\ file \in UNION {[1..k -> FileLines] : k \in 0..MaxLines}
    /\ line_no = 0
    /\ start_time = 0
    /\ texts = <<>>
    /\ result = <<>>
    /\ cue_no = 0
    /\ output = <<>>
    /\ TextIdle /\ LinesIdle /\ TimeIdle

clean_line == strip(file[line_no + 1])

the_time == str_to_time(clean_line)

\* if the_time is not None and len(texts) == 0: continue
SkipTimestamp ==
    /\ pc = "read"
    /\ line_no < Len(file)
    /\ the_time.ok /\ Len(texts) = 0
    /\ line_no' = line_no + 1
    /\ UNCHANGED <<pc, file, start_time, texts, result, cue_no, output>>
    /\ UNCHANGED <<textVars, lineVars, timeVars>>

\* elif the_time is not None: close the cue, open the next
CloseCue ==
    /\ pc = "read"
    /\ line_no < Len(file)
    /\ the_time.ok /\ Len(texts) # 0
    /\ result' = Append(result, [start |-> start_time,
                                 end |-> add_seconds(the_time.t, -1),
                                 text |-> join(texts)])
    /\ start_time' = the_time.t
    /\ texts' = <<>>
    /\ line_no' = line_no + 1
    /\ UNCHANGED <<pc, file, cue_no, output>>
    /\ UNCHANGED <<textVars, lineVars, timeVars>>

\* else: texts.append(clean_line)
CollectText ==
    /\ pc = "read"
    /\ line_no < Len(file)
    /\ ~the_time.ok
    /\ texts' = Append(texts, clean_line)
    /\ line_no' = line_no + 1
    /\ UNCHANGED <<pc, file, start_time, result, cue_no, output>>
    /\ UNCHANGED <<textVars, lineVars, timeVars>>

\* end of file: the pending text becomes a cue of five seconds; return
EndOfFile ==
    /\ pc = "read"
    /\ line_no = Len(file)
    /\ result' = IF Len(texts) # 0
                 THEN Append(result, [start |-> start_time,
                                      end |-> add_seconds(start_time, 2 * 5),
                                      text |-> join(texts)])
                 ELSE result
    /\ pc' = "split"
    /\ UNCHANGED <<file, line_no, start_time, texts, cue_no, output>>
    /\ UNCHANGED <<textVars, lineVars, timeVars>>

cue == result[cue_no + 1]

\* if len(t) <= 60 * 2: output.append((s, e, t))
KeepCue ==
    /\ pc = "split"
    /\ cue_no < Len(result)
    /\ Len(cue.text) <= 60 * 2
    /\ output' = Append(output, cue)
    /\ cue_no' = cue_no + 1
    /\ UNCHANGED <<pc, file, line_no, start_time, texts, result>>
    /\ UNCHANGED <<textVars, lineVars, timeVars>>

\* else: output.extend(split_subtitle(s, e, t))
SplitCue ==
    /\ pc = "split"
    /\ cue_no < Len(result)
    /\ ~(Len(cue.text) <= 60 * 2)
    /\ LET r == split_subtitle(cue.start, cue.end, cue.text)
       IN /\ ~r.hangs /\ ~r.raises
          /\ output' = output \o r.cues
    /\ cue_no' = cue_no + 1
    /\ UNCHANGED <<pc, file, line_no, start_time, texts, result>>
    /\ UNCHANGED <<textVars, lineVars, timeVars>>

\* split_subtitle raises ValueError, which nothing catches: the run aborts
SplitCueRaises ==
    /\ pc = "split"
    /\ cue_no < Len(result)
    /\ ~(Len(cue.text) <= 60 * 2)
    /\ split_subtitle(cue.start, cue.end, cue.text).raises
    /\ pc' = "error"
    /\ UNCHANGED <<pipeVars, textVars, lineVars, timeVars>>

\* split_subtitle never returns
SplitCueHangs ==
    /\ pc = "split"
    /\ cue_no < Len(result)
    /\ ~(Len(cue.text) <= 60 * 2)
    /\ split_subtitle(cue.start, cue.end, cue.text).hangs
    /\ pc' = "hang"
    /\ UNCHANGED <<pipeVars, textVars, lineVars, timeVars>>

\* return output
SplitDone ==
    /\ pc = "split"
    /\ cue_no = Len(result)
    /\ pc' = "output"
    /\ UNCHANGED <<pipeVars, textVars, lineVars, timeVars>>

Next ==
    \/ SkipTimestamp
    \/ CloseCue
    \/ CollectText
    \/ EndOfFile
    \/ KeepCue
    \/ SplitCue
    \/ SplitCueRaises
    \/ SplitCueHangs
    \/ SplitDone

Spec == Init /\ [][Next]_vars

(***************************************************************************)
(* Claims about the program, checked under Spec.                           *)
(***************************************************************************)

\* line n of the file is a timestamp line, and its time
IsStamp(n) == str_to_time(strip(file[n])).ok

StampOf(n) == str_to_time(strip(file[n])).t

\* lines 1..n read, body text is pending: line n is a body line
PendingAfter(n) == n >= 1 /\ ~IsStamp(n)

\* the timestamp lines among lines 1..n that came right after a body line
ClosingStamps(n) == {m \in 2..n : IsStamp(m) /\ ~IsStamp(m - 1)}

\* the time of the latest of them, 00:00:00 when there is none
LastClosingTime(n) ==
    IF ClosingStamps(n) = {} THEN 0 ELSE StampOf(Max(ClosingStamps(n)))

\* half a second before t, on the 24 h clock
HalfSecondBefore(t) == IF t = 0 THEN DayTicks - 1 ELSE t - 1

StampsNonDecreasing ==
    \A m, n \in 1..Len(file) :
        (m < n /\ IsStamp(m) /\ IsStamp(n)) => StampOf(m) <= StampOf(n)

\* C5: when the timestamp lines of the input are in non-decreasing order,
\* every cue read_raw_data produces (the end-of-file cue included) and
\* every cue split_subtitles produces has start <= end.
C5_CuesStartBeforeEnd ==
    StampsNonDecreasing =>
        /\ \A i \in 1..Len(result) : result[i].start <= result[i].end
        /\ \A i \in 1..Len(output) : output[i].start <= output[i].end

\* C8: for a cue whose text is longer than 120 characters, split_subtitle
\* emits at most len(lines) cues, lines = split_text_by_sentences(text);
\* the i-th of them carries the i-th chunk and the i-th interval of
\* split_time, and the first of them starts where the original cue starts.
C8_ResplitCuesPairChunksAndIntervals ==
    [][(pc = "split" /\ cue_no' = cue_no + 1 /\ Len(cue.text) > 120)
       =>
       LET new == SubSeq(output', Len(output) + 1, Len(output'))
           ls == split_text_by_sentences(cue.text, 120).chunks
           ts == split_time(cue.start, cue.end, Len(ls)).pairs
       IN /\ SubSeq(output', 1, Len(output)) = output
          /\ Len(new) <= Len(ls)
          /\ \A i \in 1..Len(new) :
                /\ new[i].text = ls[i]
                /\ new[i].start = ts[i].start
                /\ new[i].end = ts[i].end
          /\ new # <<>> => new[1].start = cue.start]_vars

\* a cue of 121 characters read from two lines was split into two cues, the
\* first of them ten seconds long
C8_Witness ==
    /\ pc = "split"
    /\ cue_no >= 1
    /\ Len(result[cue_no].text) > 120
    /\ Len(output) >= 2
    /\ output[Len(output) - 1].start = result[cue_no].start
    /\ output[Len(output) - 1].end = output[Len(output)].start
    /\ output[Len(output) - 1].text # output[Len(output)].text

====
